---- MODULE Spec2Model ----
(***************************************************************************)
(* Model of communication/src/allocator/process.rs: the intra-process      *)
(* channel allocator `Process`, its shared channel table, and the          *)
(* `Pusher` / `Puller` endpoints built on std::sync::mpsc channels.        *)
(*                                                                         *)
(* Conventions.  An Option<X> is a sequence of length at most one: <<>>    *)
(* is None and <<x>> is Some(x).  Worker indices are 0-based as in the     *)
(* code; Vec positions are 1-based here, so the code's v[i] is v[i+1].     *)
(* An mpsc channel is a queue on a heap `chans`, identified by its         *)
(* position there; a Sender or Receiver is the identifier of its queue.    *)
(***************************************************************************)
EXTENDS Integers, Sequences, FiniteSets, TLC

\* ---------------------------------------------------------------- bounds
MaxPeers == 2
MaxSlots == 2
MaxPush  == 2
MaxPushOnce == 3
MaxDrop  == 1

Counts == 1..MaxPeers
Types  == {"T", "U"}
NoType == "-"

\* -------------------------------------------------------------- messages
\* The panic messages of the code's expect()/unwrap() calls.
MutexError   == "mutex error?"
CastError    == "failed to correctly cast channel"
ConsumedError == "channel already consumed"
SendError    == "SendError"
NoError      == "none"

VARIABLES
  peers,      \* the count given to new_vector
  procs,      \* procs[w]: the fixed fields of the allocator handed to worker w
  allocated,  \* allocated[w]: Process.allocated of the allocator with index w
  channels,   \* the shared Vec<Box<Any+Send>>: slot records [type, vector]
  chans,      \* the heap of mpsc queues, chans[c] the pending messages of c
  lock,       \* holder of the Mutex: -1 when free, else a worker index
  poisoned,   \* the Mutex's poison flag
  pc,         \* pc[w]: position of worker w inside allocate
  ty,         \* ty[w]: the type parameter of w's allocate call in progress
  ret,        \* ret[w]: Option of what w's latest allocate call returned
  err,        \* err[w]: message of w's latest panic
  held,       \* held[w][k]: the endpoints w owns for slot k
  element,    \* element[w]: the caller's Option<T> after w's latest push
  enq,        \* history: enq[k][d+1], messages pushed to destination d of slot k
  got,        \* history: got[w][k], non-empty results of w's pulls on slot k
  npush,      \* number of values pushed so far
  ndrop       \* number of endpoints dropped so far

vars == << peers, procs, allocated, channels, chans, lock, poisoned, pc, ty, ret,
           err, held, element, enq, got, npush, ndrop >>

Workers == 0 .. (peers - 1)
Slots   == 1 .. Len(channels)

\* ------------------------------------------------------- mpsc primitives
Some(x) == << x >>
None == << >>

\* Mutant of OptionTake: the value is copied out and stays in the Option.
OptionPeek(o) == [taken |-> o, left |-> o]

\* Option::take: the value moved out, and what the Option is afterwards.
OptionTake(o) == [taken |-> o, left |-> None]

\* The Senders of an unextracted table entry / the Receiver it holds.
EntrySends(k, j) ==
  IF channels[k].vector[j] = None THEN {}
  ELSE { channels[k].vector[j][1].send[i] : i \in 1..Len(channels[k].vector[j][1].send) }

EntryRecvs(k, j) ==
  IF channels[k].vector[j] = None THEN {}
  ELSE { channels[k].vector[j][1].recv.source }

HeldSends(w, k) ==
  { held[w][k].push[i][1] : i \in { i \in 1..Len(held[w][k].push) : held[w][k].push[i] # None } }

HeldRecvs(w, k) ==
  IF held[w][k].pull = None THEN {} ELSE { held[w][k].pull[1].source }

\* Some Sender of queue c still exists.
TxAlive(c) ==
  \/ \E k \in Slots : \E j \in 1..peers : c \in EntrySends(k, j)
  \/ \E w \in Workers : \E k \in 1..Len(held[w]) : c \in HeldSends(w, k)

\* Mutant of RxAlive: a Receiver still boxed in the table does not count.
RxAliveHeld(c) ==
  \E w \in Workers : \E k \in 1..Len(held[w]) : c \in HeldRecvs(w, k)

\* The Receiver of queue c still exists.
RxAlive(c) ==
  \/ \E k \in Slots : \E j \in 1..peers : c \in EntryRecvs(k, j)
  \/ \E w \in Workers : \E k \in 1..Len(held[w]) : c \in HeldRecvs(w, k)

\* Mutant of Send: a send to a queue without Receiver is reported as done.
SendUnchecked(c, m) == [tag |-> "Ok", queue |-> Append(chans[c], m)]

\* Mutant of Send: the message is accepted and lost.
SendLossy(c, m) == [tag |-> "Ok", queue |-> chans[c]]

\* Mutant of Send: the message is queued in front of the pending ones.
SendFront(c, m) ==
  IF RxAlive(c) THEN [tag |-> "Ok",  queue |-> << m >> \o chans[c]]
  ELSE               [tag |-> "Err", queue |-> chans[c]]

\* Sender::send: Err when the Receiver is gone, else the message is queued.
Send(c, m) ==
  IF RxAlive(c) THEN [tag |-> "Ok",  queue |-> Append(chans[c], m)]
  ELSE               [tag |-> "Err", queue |-> chans[c]]

\* Mutant of TryRecv: the newest message is received instead of the oldest.
TryRecvLast(c) ==
  IF chans[c] # << >>
    THEN [tag |-> "Ok", val |-> Some(chans[c][Len(chans[c])]),
          queue |-> SubSeq(chans[c], 1, Len(chans[c]) - 1)]
  ELSE IF TxAlive(c)
    THEN [tag |-> "Empty", val |-> None, queue |-> chans[c]]
    ELSE [tag |-> "Disconnected", val |-> None, queue |-> chans[c]]

\* Mutant of TryRecv: the head message is returned and left in the queue.
TryRecvPeek(c) ==
  IF chans[c] # << >>
    THEN [tag |-> "Ok", val |-> Some(Head(chans[c])), queue |-> chans[c]]
  ELSE IF TxAlive(c)
    THEN [tag |-> "Empty", val |-> None, queue |-> chans[c]]
    ELSE [tag |-> "Disconnected", val |-> None, queue |-> chans[c]]

\* Receiver::try_recv: one attempt, never waits.
TryRecv(c) ==
  IF chans[c] # << >>
    THEN [tag |-> "Ok", val |-> Some(Head(chans[c])), queue |-> Tail(chans[c])]
  ELSE IF TxAlive(c)
    THEN [tag |-> "Empty", val |-> None, queue |-> chans[c]]
    ELSE [tag |-> "Disconnected", val |-> None, queue |-> chans[c]]

\* Result::ok
Ok(r) == IF r.tag = "Ok" THEN r.val ELSE None

\* ------------------------------------------------------------ new_vector
\* The one table every allocator of a new_vector call holds a handle to.
TheTable == "channels"

\* Mutant of NewVector: the indices are counted from one.
NewVectorFromOne(count) ==
  [index \in 1..count |->
    [index |-> index, peers |-> count, allocated |-> 0, channels |-> TheTable]]

\* Mutant of NewVector: every allocator is given index 0.
NewVectorSameIndex(count) ==
  [index \in 1..count |->
     [index |-> 0, peers |-> count, allocated |-> 0, channels |-> TheTable]]

\* lines 23-32: the Vec<Process> that new_vector(count) returns.
NewVector(count) ==
  [index \in 1..count |->
    [index |-> index - 1, peers |-> count, allocated |-> 0, channels |-> TheTable]]

\* The fields of a Process that no method assigns.
Fixed(process) ==
  [index |-> process.index, peers |-> process.peers, channels |-> process.channels]

Init ==
  /\ peers \in Counts
  /\ procs = [w \in 0..(peers - 1) |-> Fixed(NewVector(peers)[w + 1])]
  /\ allocated = [w \in 0..(peers - 1) |-> NewVector(peers)[w + 1].allocated]
  /\ channels = << >>
  /\ chans = << >>
  /\ lock = -1
  /\ poisoned = FALSE
  /\ pc = [w \in 0..(peers - 1) |-> "idle"]
  /\ ty = [w \in 0..(peers - 1) |-> NoType]
  /\ ret = [w \in 0..(peers - 1) |-> None]
  /\ err = [w \in 0..(peers - 1) |-> NoError]
  /\ held = [w \in 0..(peers - 1) |-> << >>]
  /\ element = [w \in 0..(peers - 1) |-> None]
  /\ enq = << >>
  /\ got = [w \in 0..(peers - 1) |-> << >>]
  /\ npush = 0
  /\ ndrop = 0

\* -------------------------------------------------------------- allocate
\* Mutant of AllocLock: the table is entered without waiting for the holder.
AllocLockShared(w, t) ==
  /\ pc[w] = "idle"
  /\ ret' = [ret EXCEPT ![w] = None]
  /\ IF poisoned
       THEN /\ err' = [err EXCEPT ![w] = MutexError]
            /\ UNCHANGED << lock, pc, ty >>
       ELSE /\ lock' = w
            /\ pc' = [pc EXCEPT ![w] = "locked"]
            /\ ty' = [ty EXCEPT ![w] = t]
            /\ UNCHANGED err
  /\ UNCHANGED << peers, procs, allocated, channels, chans, poisoned, held, element,
                  enq, got, npush, ndrop >>

\* line 41: self.channels.lock().ok().expect("mutex error?")
AllocLock(w, t) ==
  /\ pc[w] = "idle"
  /\ lock = -1
  /\ ret' = [ret EXCEPT ![w] = None]
  /\ IF poisoned
       THEN /\ err' = [err EXCEPT ![w] = MutexError]
            /\ UNCHANGED << lock, pc, ty >>
       ELSE /\ lock' = w
            /\ pc' = [pc EXCEPT ![w] = "locked"]
            /\ ty' = [ty EXCEPT ![w] = t]
            /\ UNCHANGED err
  /\ UNCHANGED << peers, procs, allocated, channels, chans, poisoned, held, element,
                  enq, got, npush, ndrop >>

\* Mutant of NewSlot: the receivers are boxed in reverse order, so entry j
\* holds the read end of the queue that the pushers at n+1-j feed.
NewSlotCrossed(n, base, t) ==
  LET pushers == [i \in 1..n |-> base + i]
      pullers == [i \in 1..n |-> [source |-> base + i, current |-> None]]
      to_box  == [j \in 1..n |-> Some([send |-> pushers, recv |-> pullers[n + 1 - j]])]
  IN  [type |-> t, vector |-> to_box]

\* Mutant of NewSlot: every slot is built over the same first n queues.
NewSlotShared(n, base, t) ==
  LET pushers == [i \in 1..n |-> i]
      pullers == [i \in 1..n |-> [source |-> i, current |-> None]]
      to_box  == [j \in 1..n |-> Some([send |-> pushers, recv |-> pullers[j]])]
  IN  [type |-> t, vector |-> to_box]

\* lines 45-56: the record of a new slot, its queues being base+1 .. base+n.
NewSlot(n, base, t) ==
  LET pushers == [i \in 1..n |-> base + i]
      pullers == [i \in 1..n |-> [source |-> base + i, current |-> None]]
      to_box  == [j \in 1..n |-> Some([send |-> pushers, recv |-> pullers[j]])]
  IN  [type |-> t, vector |-> to_box]

\* Mutant of AllocGrow: a slot is created on every call, whatever the counter.
AllocGrowAlways(w) ==
  /\ pc[w] = "locked"
  /\ pc' = [pc EXCEPT ![w] = "grown"]
  /\ channels' = Append(channels, NewSlot(procs[w].peers, Len(chans), ty[w]))
  /\ chans' = chans \o [i \in 1..procs[w].peers |-> << >>]
  /\ enq' = Append(enq, [i \in 1..procs[w].peers |-> << >>])
  /\ UNCHANGED << peers, procs, allocated, lock, poisoned, ty, ret, err, held,
                  element, got, npush, ndrop >>

\* Mutant of AllocGrow: the call waits, inside the critical section, until no
\* peer is behind it.
AllocGrowBarrier(w) ==
  /\ pc[w] = "locked"
  /\ \A v \in Workers : allocated[v] >= allocated[w]
  /\ pc' = [pc EXCEPT ![w] = "grown"]
  /\ IF allocated[w] = Len(channels)
       THEN /\ channels' = Append(channels, NewSlot(procs[w].peers, Len(chans), ty[w]))
            /\ chans' = chans \o [i \in 1..procs[w].peers |-> << >>]
            /\ enq' = Append(enq, [i \in 1..procs[w].peers |-> << >>])
       ELSE UNCHANGED << channels, chans, enq >>
  /\ UNCHANGED << peers, procs, allocated, lock, poisoned, ty, ret, err, held,
                  element, got, npush, ndrop >>

\* lines 44-59: if self.allocated == channels.len() { ... channels.push(..) }
AllocGrow(w) ==
  /\ pc[w] = "locked"
  /\ pc' = [pc EXCEPT ![w] = "grown"]
  /\ IF allocated[w] = Len(channels)
       THEN /\ channels' = Append(channels, NewSlot(procs[w].peers, Len(chans), ty[w]))
            /\ chans' = chans \o [i \in 1..procs[w].peers |-> << >>]
            /\ enq' = Append(enq, [i \in 1..procs[w].peers |-> << >>])
       ELSE UNCHANGED << channels, chans, enq >>
  /\ UNCHANGED << peers, procs, allocated, lock, poisoned, ty, ret, err, held,
                  element, got, npush, ndrop >>

\* Mutant of PanicLocked: the guard is released without poisoning the Mutex.
PanicLockedClean(w, msg) ==
  /\ err' = [err EXCEPT ![w] = msg]
  /\ lock' = -1
  /\ pc' = [pc EXCEPT ![w] = "idle"]
  /\ ty' = [ty EXCEPT ![w] = NoType]
  /\ UNCHANGED << peers, procs, allocated, channels, chans, poisoned, ret, held,
                  element, enq, got, npush, ndrop >>

\* A panic while the MutexGuard is alive: unwinding drops the guard, which
\* poisons and releases the Mutex; the call returns nothing.
PanicLocked(w, msg) ==
  /\ err' = [err EXCEPT ![w] = msg]
  /\ poisoned' = TRUE
  /\ lock' = -1
  /\ pc' = [pc EXCEPT ![w] = "idle"]
  /\ ty' = [ty EXCEPT ![w] = NoType]
  /\ UNCHANGED << peers, procs, allocated, channels, chans, ret, held, element,
                  enq, got, npush, ndrop >>

\* Mutant of Downcast: the cast is not checked against the slot's type.
DowncastUnchecked(slot, t) == Some(slot.vector)

\* lines 61-64: channels[self.allocated].downcast_mut::<..T..>().expect(..)
Downcast(slot, t) == IF slot.type = t THEN Some(slot.vector) ELSE None

\* Mutant of TakeEntry: the entry is read without being emptied.
TakeEntryKeep(vector, index) ==
  [taken |-> vector[index + 1], left |-> vector]

\* lines 66-68: vector[self.index].take(): the value taken and the vector left.
TakeEntry(vector, index) ==
  [taken |-> OptionTake(vector[index + 1]).taken,
   left  |-> [vector EXCEPT ![index + 1] = OptionTake(@).left]]

\* Mutant of Returned: the boxing loop stops one sender short.
ReturnedShort(entry) ==
  [pushers |-> SubSeq(entry.send, 1, Len(entry.send) - 1), puller |-> entry.recv,
   hint |-> None]

\* lines 72-74: the returned triple.
Returned(entry) ==
  [pushers |-> entry.send, puller |-> entry.recv, hint |-> None]

\* The caller's ownership of the returned boxes: each is there until dropped.
Owned(r) ==
  [push |-> [i \in 1..Len(r.pushers) |-> Some(r.pushers[i])],
   pull |-> Some(r.puller)]

\* lines 61-75: recover the slot's vector, take this worker's entry, count
\* it, box and return the endpoints; the guard is released on return.
AllocExtract(w) ==
  /\ pc[w] = "grown"
  /\ LET k == allocated[w] + 1
         c == Downcast(channels[k], ty[w])
     IN  IF c = None THEN PanicLocked(w, CastError)
         ELSE LET t == TakeEntry(c[1], procs[w].index)
              IN  IF t.taken = None THEN PanicLocked(w, ConsumedError)
                  ELSE /\ channels' = [channels EXCEPT ![k].vector = t.left]
                       /\ allocated' = [allocated EXCEPT ![w] = @ + 1]
                       /\ ret' = [ret EXCEPT ![w] = Some(Returned(t.taken[1]))]
                       /\ held' = [held EXCEPT ![w] = Append(@, Owned(Returned(t.taken[1])))]
                       /\ got' = [got EXCEPT ![w] = Append(@, << >>)]
                       /\ lock' = -1
                       /\ pc' = [pc EXCEPT ![w] = "idle"]
                       /\ ty' = [ty EXCEPT ![w] = NoType]
                       /\ UNCHANGED << peers, procs, chans, poisoned, err, element,
                                       enq, npush, ndrop >>

\* ------------------------------------------------------------------ push
\* The message with its history tags (who pushed it, through which pusher).
Msg(v, w, k, d) == [val |-> v, src |-> w, slot |-> k, dst |-> d]

\* lines 90-94: Pusher::push on the pusher at position d of w's slot-k list,
\* the caller's Option being opt.  element[w] is that Option afterwards.
Push(w, k, d, opt) ==
  /\ k \in 1..Len(held[w])
  /\ d \in 0..(Len(held[w][k].push) - 1)
  /\ held[w][k].push[d + 1] # None
  /\ element' = [element EXCEPT ![w] = OptionTake(opt).left]
  /\ IF OptionTake(opt).taken # None
       THEN LET target == held[w][k].push[d + 1][1]
                m == Msg(OptionTake(opt).taken[1], w, k, d)
                r == Send(target, m)
            IN  /\ npush' = npush + 1
                /\ IF r.tag = "Ok"
                     THEN /\ chans' = [chans EXCEPT ![target] = r.queue]
                          /\ enq' = [enq EXCEPT ![k][d + 1] = Append(@, m)]
                          /\ UNCHANGED err
                     ELSE /\ err' = [err EXCEPT ![w] = SendError]
                          /\ UNCHANGED << chans, enq >>
       ELSE UNCHANGED << chans, enq, err, npush >>
  /\ UNCHANGED << peers, procs, allocated, channels, lock, poisoned, pc, ty, ret,
                  held, got, ndrop >>

\* The Options a caller hands to push: empty, or holding a value.  The code
\* never inspects a T, so a pushed value is a fresh one: every message is
\* distinguishable from every other.
Options == { None, Some(npush + 1) }

\* ------------------------------------------------------------------ pull
\* Mutant of PullerAfter: the held value is replaced only by a received one.
PullerAfterKeep(p, r) ==
  IF r.tag = "Ok" THEN [p EXCEPT !.current = r.val] ELSE p

\* line 106: self.current = <the result>.ok()
PullerAfter(p, r) == [p EXCEPT !.current = Ok(r)]

\* lines 105-107: self.current = self.source.try_recv().ok(); &mut self.current
Pull(w, k) ==
  /\ k \in 1..Len(held[w])
  /\ held[w][k].pull # None
  /\ LET p == held[w][k].pull[1]
         r == TryRecv(p.source)
     IN  /\ held' = [held EXCEPT ![w][k].pull = Some(PullerAfter(p, r))]
         /\ chans' = [chans EXCEPT ![p.source] = r.queue]
         /\ got' = [got EXCEPT ![w][k] = @ \o PullerAfter(p, r).current]
  /\ UNCHANGED << peers, procs, allocated, channels, lock, poisoned, pc, ty, ret,
                  err, element, enq, npush, ndrop >>

\* The caller takes the value out of the &mut Option that pull returned.
Consume(w, k) ==
  /\ k \in 1..Len(held[w])
  /\ held[w][k].pull # None
  /\ held[w][k].pull[1].current # None
  /\ held' = [held EXCEPT ![w][k].pull = Some([@[1] EXCEPT !.current = None])]
  /\ UNCHANGED << peers, procs, allocated, channels, chans, lock, poisoned, pc, ty,
                  ret, err, element, enq, got, npush, ndrop >>

\* ------------------------------------------------------------------ drop
\* The owner drops one of its boxed pushers.
DropPusher(w, k, d) ==
  /\ k \in 1..Len(held[w])
  /\ d \in 0..(Len(held[w][k].push) - 1)
  /\ held[w][k].push[d + 1] # None
  /\ held' = [held EXCEPT ![w][k].push[d + 1] = None]
  /\ ndrop' = ndrop + 1
  /\ UNCHANGED << peers, procs, allocated, channels, chans, lock, poisoned, pc, ty,
                  ret, err, element, enq, got, npush >>

\* The owner drops its boxed puller.
DropPuller(w, k) ==
  /\ k \in 1..Len(held[w])
  /\ held[w][k].pull # None
  /\ held' = [held EXCEPT ![w][k].pull = None]
  /\ ndrop' = ndrop + 1
  /\ UNCHANGED << peers, procs, allocated, channels, chans, lock, poisoned, pc, ty,
                  ret, err, element, enq, got, npush >>

\* ------------------------------------------------------------------ spec
\* A push of a value within the push budget b.
PushWithin(b, w, k, d, opt) ==
  /\ opt # None => npush < b
  /\ Push(w, k, d, opt)

Next ==
  \/ \E w \in Workers : \E t \in Types : allocated[w] < MaxSlots /\ AllocLock(w, t)
  \/ \E w \in Workers : AllocGrow(w)
  \/ \E w \in Workers : AllocExtract(w)
  \/ \E w \in Workers : \E k \in 1..MaxSlots : \E d \in Workers : \E opt \in Options :
        PushWithin(MaxPush, w, k, d, opt)
  \/ \E w \in Workers : \E k \in 1..MaxSlots : Pull(w, k)
  \/ \E w \in Workers : \E k \in 1..MaxSlots : Consume(w, k)
  \/ \E w \in Workers : \E k \in 1..MaxSlots : \E d \in Workers :
        ndrop < MaxDrop /\ DropPusher(w, k, d)
  \/ \E w \in Workers : \E k \in 1..MaxSlots : ndrop < MaxDrop /\ DropPuller(w, k)

Spec == Init /\ [][Next]_vars

\* ------------------------------------------------- the one-slot scenario
\* Every allocator of one new_vector(n) calls allocate::<T>() exactly once,
\* in any order; the workers then exchange messages over that one mesh.
AllocOnce(w) ==
  /\ allocated[w] = 0
  /\ err[w] = NoError
  /\ AllocLock(w, "T")

NextOnce ==
  \/ \E w \in Workers : AllocOnce(w)
  \/ \E w \in Workers : AllocGrow(w)
  \/ \E w \in Workers : AllocExtract(w)
  \/ \E w \in Workers : \E d \in Workers : \E opt \in Options :
        PushWithin(MaxPushOnce, w, 1, d, opt)
  \/ \E w \in Workers : Pull(w, 1)
  \/ \E w \in Workers : Consume(w, 1)
  \/ \E w \in Workers : \E d \in Workers : ndrop < MaxDrop /\ DropPusher(w, 1, d)
  \/ \E w \in Workers : ndrop < MaxDrop /\ DropPuller(w, 1)

SpecOnce == Init /\ [][NextOnce]_vars

\* ------------------------------------------- the double-extraction test
\* The test of double extraction, in the one-slot scenario: for a worker
\* position whose slot is already extracted, the take is invoked again by
\* stepping the handle's counter back, so that the worker's next allocate
\* call reads that slot position a second time.  At most one handle is
\* stepped back.
Rewind(w) ==
  /\ pc[w] = "idle"
  /\ allocated[w] > 0
  /\ \A v \in Workers : allocated[v] = Len(held[v])
  /\ allocated' = [allocated EXCEPT ![w] = @ - 1]
  /\ UNCHANGED << peers, procs, channels, chans, lock, poisoned, pc, ty, ret, err,
                  held, element, enq, got, npush, ndrop >>

NextRetake ==
  \/ NextOnce
  \/ \E w \in Workers : Rewind(w)

SpecRetake == Init /\ [][NextRetake]_vars

\* ------------------------------------------------------------- fairness
\* A destination that keeps polling: a pull that would change the state is
\* not postponed forever.  Nothing else is assumed to happen.
Polling ==
  \A w \in 0..(MaxPeers - 1) : \A k \in 1..MaxSlots :
    WF_vars(w \in Workers /\ Pull(w, k))

LiveSpecOnce == SpecOnce /\ Polling

\* A worker inside allocate keeps running: the steps it takes while it holds
\* the table's lock are not postponed forever.
Running ==
  \A w \in 0..(MaxPeers - 1) :
    WF_vars(w \in Workers /\ (AllocGrow(w) \/ AllocExtract(w)))

FairSpec == Spec /\ Running

\* ============================================================== claims
\* The sequence s without its repetitions, as a set.
Range(s) == { s[i] : i \in 1..Len(s) }

\* The allocate panics.
AllocErrors == { MutexError, CastError, ConsumedError }

\* C1: when each of the n allocators of one new_vector(n) calls allocate<T>
\* exactly once, in any interleaving, no call fails, and a worker whose call
\* has returned holds exactly n pushers, one per destination index 0..n-1
\* (the pusher at d feeds the queue whose puller worker d is given, the
\* caller's own included), exactly one puller, and an absent format hint.
C1_AllocateOnce ==
  \A w \in Workers :
    /\ err[w] \notin AllocErrors
    /\ (pc[w] = "idle" /\ ret[w] = None) => allocated[w] = 0
    /\ ret[w] # None =>
         /\ allocated[w] = 1
         /\ Len(ret[w]) = 1
         /\ Len(ret[w][1].pushers) = peers
         /\ Cardinality(Range(ret[w][1].pushers)) = peers
         /\ ret[w][1].pushers[w + 1] = ret[w][1].puller.source
         /\ \A d \in Workers :
              ret[d] # None => ret[w][1].pushers[d + 1] = ret[d][1].puller.source
         /\ ret[w][1].hint = None

\* Every worker of the largest group has made its one call.
C1_Witness ==
  /\ peers = MaxPeers
  /\ \A w \in Workers : allocated[w] = 1 /\ ret[w] # None /\ pc[w] = "idle"

\* Worker d owns the puller it extracted for slot k.
HoldsPuller(d, k) ==
  d \in Workers /\ k \in 1..Len(held[d]) /\ held[d][k].pull # None

\* The i-th message pushed to destination d of slot k.
Pushed(k, d, i) ==
  d \in Workers /\ k \in 1..Len(enq) /\ i \in 1..Len(enq[k][d + 1])

\* ... has been returned by a pull of worker d on its slot-k puller.
Delivered(k, d, i) ==
  /\ Pushed(k, d, i)
  /\ k \in 1..Len(got[d])
  /\ \E j \in 1..Len(got[d][k]) : got[d][k][j] = enq[k][d + 1][i]

\* C2: every value pushed by any source to its pusher for destination d
\* (d = source included) is eventually returned by a pull on d's puller of
\* the same slot, provided d has extracted that slot's puller and keeps
\* polling it (it polls fairly and does not drop the puller).
C2_Delivery ==
  \A d \in 0..(MaxPeers - 1) : \A k \in 1..MaxSlots : \A i \in 1..MaxPushOnce :
    (Pushed(k, d, i) /\ HoldsPuller(d, k))
      ~> (Delivered(k, d, i) \/ ~HoldsPuller(d, k))

\* A worker has pulled a value it pushed to itself, and one pushed by a peer.
C2_Witness ==
  /\ \E d \in Workers : \E k \in 1..Len(got[d]) : \E j \in 1..Len(got[d][k]) :
       got[d][k][j].src = d
  /\ \E d \in Workers : \E k \in 1..Len(got[d]) : \E j \in 1..Len(got[d][k]) :
       got[d][k][j].src # d

\* The position of message m in the sequence s, 0 when it is not there.
Pos(s, m) ==
  IF \E j \in 1..Len(s) : s[j] = m
    THEN CHOOSE j \in 1..Len(s) : s[j] = m
    ELSE 0

\* C3: for a fixed source s, destination d and slot k, if s pushes a and
\* later b to d, then a pull of d that returns b comes after a pull of d that
\* returned a, whatever other sources push to d in between.
C3_Fifo ==
  \A k \in 1..Len(enq) : \A d \in Workers :
    \A i \in 1..Len(enq[k][d + 1]) : \A j \in 1..Len(enq[k][d + 1]) :
      (i < j /\ enq[k][d + 1][i].src = enq[k][d + 1][j].src /\ k \in 1..Len(got[d])
         /\ Pos(got[d][k], enq[k][d + 1][j]) > 0)
        => /\ Pos(got[d][k], enq[k][d + 1][i]) > 0
           /\ Pos(got[d][k], enq[k][d + 1][i]) < Pos(got[d][k], enq[k][d + 1][j])

\* Destination d has pulled a, then a value of another source, then b, where
\* a and b come from the same source.
C3_Witness ==
  \E d \in Workers : \E k \in 1..Len(got[d]) :
    /\ Len(got[d][k]) >= 3
    /\ got[d][k][1].src = got[d][k][3].src
    /\ got[d][k][1].src # got[d][k][2].src
    /\ got[d][k][1].val < got[d][k][3].val

\* The messages worker w has been handed by its slot-k puller: those its
\* pulls returned, and the one the puller holds now.
Seen(w, k) ==
  Range(got[w][k]) \cup
    (IF held[w][k].pull = None THEN {} ELSE Range(held[w][k].pull[1].current))

\* C4: the pusher at position d of any worker's list delivers only to worker
\* d: a value pushed through a pusher at position d is never returned by the
\* puller of a worker other than d.
C4_OnlyDestination ==
  \A w \in Workers : \A k \in 1..Len(held[w]) :
    \A m \in Seen(w, k) : m.dst = w

\* In the largest group, worker 0 pushed to the last worker, whose puller
\* returned the value, while the pullers of all other workers that hold the
\* slot have returned nothing and have nothing pending.
C4_Witness ==
  /\ peers = MaxPeers
  /\ \E k \in 1..Len(held[peers - 1]) : \E m \in Range(got[peers - 1][k]) :
       /\ m.src = 0 /\ m.dst = peers - 1
       /\ \A w \in Workers \ {peers - 1} :
            /\ HoldsPuller(w, k)
            /\ got[w][k] = << >>
            /\ chans[held[w][k].pull[1].source] = << >>

\* C5: two allocate calls made in sequence (by every worker, in the same
\* order) with different message types occupy two independent slots: a value
\* pushed through a pusher of one is never returned by a puller of the other.
C5_TypeIsolation ==
  \A k1 \in Slots : \A k2 \in Slots :
    (k1 # k2 /\ channels[k1].type # channels[k2].type) =>
      \A w \in Workers :
        k2 \in 1..Len(held[w]) => \A m \in Seen(w, k2) : m.slot # k1

\* A worker holds a slot of type T and a slot of type U, and has pulled a
\* value from each.
C5_Witness ==
  /\ Len(channels) = 2
  /\ channels[1].type # channels[2].type
  /\ \E w \in Workers :
       /\ Len(held[w]) = 2
       /\ got[w][1] # << >>
       /\ got[w][2] # << >>

\* C6: each (slot, worker index) entry of the table is extracted once only:
\* an allocate call that reaches the take for a slot position its worker has
\* already extracted fails with "channel already consumed"; it returns no
\* endpoints, hands out nothing again, and leaves the table as it is.
C6_TakeOnce ==
  [][\A w \in Workers :
       (/\ pc[w] = "grown" /\ pc'[w] = "idle"
        /\ allocated[w] < Len(held[w])
        /\ channels[allocated[w] + 1].type = ty[w])
       => /\ err'[w] = ConsumedError
          /\ ret'[w] = None
          /\ held' = held /\ got' = got
          /\ channels' = channels /\ chans' = chans
          /\ allocated' = allocated]_vars

\* A second extraction of a taken entry was attempted, and failed.
C6_Witness ==
  \E w \in Workers :
    /\ err[w] = ConsumedError
    /\ allocated[w] < Len(held[w])
    /\ channels[allocated[w] + 1].vector[w + 1] = None

\* C7: when a worker's allocate<U> reaches a slot position whose slot was
\* created by an allocate<T> with T different from U, the call fails with
\* the cast error and returns no endpoints: the worker's counter, what it
\* owns and the table stay as they were.
C7_TypeMismatch ==
  [][\A w \in Workers :
       (/\ pc[w] = "grown" /\ pc'[w] = "idle"
        /\ channels[allocated[w] + 1].type # ty[w])
       => /\ err'[w] = CastError
          /\ ret'[w] = None
          /\ held' = held /\ got' = got
          /\ channels' = channels /\ chans' = chans
          /\ allocated' = allocated]_vars

\* A call made with a type other than the slot's has failed, its entry still
\* in the table.
C7_Witness ==
  \E w \in Workers :
    /\ err[w] = CastError
    /\ pc[w] = "idle"
    /\ ret[w] = None
    /\ allocated[w] < Len(channels)
    /\ channels[allocated[w] + 1].vector[w + 1] # None

\* The queue that worker w's slot-k puller reads.
Source(w, k) == held[w][k].pull[1].source

\* What the slot-k puller of worker w holds.
Current(w, k) == held[w][k].pull[1].current

\* C8: a pull on a puller whose queue holds no pending message returns
\* empty, raises no error, and changes nothing but the puller's own held
\* value (cleared): the queue, the other queues and every other worker's
\* state stay as they are, so a further such pull changes nothing at all.
C8_EmptyPoll ==
  [][\A w \in Workers : \A k \in 1..MaxSlots :
       (HoldsPuller(w, k) /\ chans[Source(w, k)] = << >> /\ Pull(w, k))
       => /\ held' = [held EXCEPT ![w][k].pull =
                        Some([source |-> Source(w, k), current |-> None])]
          /\ UNCHANGED << peers, procs, allocated, channels, chans, lock, poisoned,
                          pc, ty, ret, err, element, enq, got, npush, ndrop >>]_vars

\* A puller that returned a value before now holds nothing, with nothing
\* pending in its queue.
C8_Witness ==
  \E w \in Workers : \E k \in 1..Len(held[w]) :
    /\ HoldsPuller(w, k)
    /\ got[w][k] # << >>
    /\ chans[Source(w, k)] = << >>
    /\ Current(w, k) = None

\* The queue whose read end belongs to worker d in slot k, while that read
\* end exists: in the table until d extracts it, then in d's puller.
DestQueue(k, d) ==
  IF channels[k].vector[d + 1] # None
    THEN Some(channels[k].vector[d + 1][1].recv.source)
  ELSE IF HoldsPuller(d, k) THEN Some(Source(d, k))
  ELSE None

\* C9: a push with an Option holding a value moves the value out (the
\* caller's Option is empty afterwards) and, the destination's read end
\* existing, appends exactly that one value to the destination's queue and
\* touches no other queue; a push with an empty Option is a no-op: the
\* queues and the Option stay as they are.
C9_PushFrame ==
  [][\A w \in Workers : \A k \in 1..MaxSlots : \A d \in Workers : \A opt \in Options :
       Push(w, k, d, opt) =>
         IF opt # None
           THEN /\ element'[w] = None
                /\ DestQueue(k, d) # None =>
                     /\ Len(chans'[DestQueue(k, d)[1]]) = Len(chans[DestQueue(k, d)[1]]) + 1
                     /\ SubSeq(chans'[DestQueue(k, d)[1]], 1, Len(chans[DestQueue(k, d)[1]]))
                          = chans[DestQueue(k, d)[1]]
                     /\ chans'[DestQueue(k, d)[1]][Len(chans[DestQueue(k, d)[1]]) + 1].val = opt[1]
                     /\ \A c \in 1..Len(chans) : c # DestQueue(k, d)[1] => chans'[c] = chans[c]
                     /\ err' = err
           ELSE /\ element'[w] = opt
                /\ chans' = chans
                /\ err' = err /\ npush' = npush]_vars

\* A value was pushed and is pending in the queue of its destination, behind
\* an earlier one, and the Option of the worker that pushed it is empty.
C9_Witness ==
  \E k \in Slots : \E d \in Workers :
    /\ DestQueue(k, d) # None
    /\ Len(chans[DestQueue(k, d)[1]]) = 2
    /\ chans[DestQueue(k, d)[1]] = enq[k][d + 1]
    /\ element[enq[k][d + 1][2].src] = None

\* C10: a pull makes one receive attempt and never waits: it can always be
\* taken while the puller is owned; on a non-empty queue it removes exactly
\* the head message and the puller holds it; on an empty queue, closed (no
\* sender left) or not, the puller holds nothing, the queue is as it was,
\* and no error is raised.
C10_PullOnce ==
  /\ [](\A w \in 0..(MaxPeers - 1) : \A k \in 1..MaxSlots :
          HoldsPuller(w, k) => ENABLED Pull(w, k))
  /\ [][\A w \in Workers : \A k \in 1..MaxSlots :
          (HoldsPuller(w, k) /\ Pull(w, k)) =>
            /\ IF chans[Source(w, k)] # << >>
                 THEN /\ chans' = [chans EXCEPT ![Source(w, k)] = Tail(@)]
                      /\ Current(w, k)' = Some(Head(chans[Source(w, k)]))
                 ELSE /\ chans' = chans
                      /\ Current(w, k)' = None
            /\ Source(w, k)' = Source(w, k)
            /\ err' = err /\ poisoned' = poisoned /\ pc' = pc]_vars

\* A puller whose queue is closed, every sender of it gone, and empty holds
\* nothing after having returned a value, and no worker has failed.
C10_Witness ==
  \E w \in Workers : \E k \in 1..Len(held[w]) :
    /\ HoldsPuller(w, k)
    /\ ~TxAlive(Source(w, k))
    /\ chans[Source(w, k)] = << >>
    /\ got[w][k] # << >>
    /\ Current(w, k) = None
    /\ \A v \in Workers : err[v] = NoError

\* Worker w owns the pusher at position d of its slot-k list.
HoldsPusher(w, k, d) ==
  /\ w \in Workers /\ d \in Workers
  /\ k \in 1..Len(held[w])
  /\ held[w][k].push[d + 1] # None

\* C11: a push of a value through a pusher whose queue has lost its read end
\* (the destination dropped its puller) fails fatally and queues nothing; a
\* push while the read end exists, owned by the destination or still in the
\* table, never fails, and a push never waits: it can be taken whenever the
\* pusher is owned, whatever the length of the queue.
C11_PushClosed ==
  /\ [](\A w \in 0..(MaxPeers - 1) : \A k \in 1..MaxSlots : \A d \in 0..(MaxPeers - 1) :
          HoldsPusher(w, k, d) => \A opt \in Options : ENABLED Push(w, k, d, opt))
  /\ [][\A w \in Workers : \A k \in 1..MaxSlots : \A d \in Workers :
          (Options # {None} /\ Push(w, k, d, Some(npush + 1))) =>
            IF DestQueue(k, d) = None
              THEN err'[w] = SendError /\ chans' = chans
              ELSE /\ err' = err
                   /\ Len(chans'[DestQueue(k, d)[1]]) = Len(chans[DestQueue(k, d)[1]]) + 1]_vars

\* A push to a destination that dropped its puller has failed, and in some
\* queue whose read end exists a pushed value is pending.
C11_Witness ==
  /\ \E w \in Workers : err[w] = SendError
  /\ \E k \in Slots : \E d \in Workers :
       DestQueue(k, d) # None /\ chans[DestQueue(k, d)[1]] # << >>

\* C12: new_vector(count) returns exactly count allocators, the one at
\* position i having index i (0..count-1, in order), each with peers = count
\* and allocated = 0, all holding the same table, which is empty at first;
\* index, peers and the table handle of an allocator never change afterwards.
C12_NewVector ==
  /\ DOMAIN procs = 0..(peers - 1)
  /\ DOMAIN allocated = 0..(peers - 1)
  /\ \A w \in Workers : allocated[w] = 0
  /\ channels = << >>
  /\ [](\A w \in Workers :
          /\ procs[w].index = w
          /\ procs[w].peers = peers
          /\ \A v \in Workers : procs[v].channels = procs[w].channels)

\* The largest group as new_vector returns it, before any call.
C12_Witness ==
  /\ peers = MaxPeers
  /\ channels = << >>
  /\ \A w \in Workers : allocated[w] = 0 /\ pc[w] = "idle" /\ ret[w] = None

\* The slots of the table from which the entry of position w is gone.
Extracted(w) == { k \in Slots : channels[k].vector[w + 1] = None }

\* C13: an allocator's counter goes up by exactly 1 on each successful
\* allocate call and is unchanged by a failed one, and at every reachable
\* state it is the number of table slots from which this instance has
\* extracted its entry, which are exactly the slots 0..allocated-1 (1-based
\* here: 1..allocated).
C13_Allocated ==
  /\ [](\A w \in Workers :
          /\ Extracted(w) = 1..allocated[w]
          /\ Len(held[w]) = allocated[w])
  /\ [][\A w \in Workers :
          /\ allocated'[w] \in { allocated[w], allocated[w] + 1 }
          /\ (pc[w] = "grown" /\ pc'[w] = "idle") =>
               IF ret'[w] # None THEN allocated'[w] = allocated[w] + 1
                                 ELSE allocated'[w] = allocated[w]
          /\ (pc[w] = "idle" /\ pc'[w] = "idle") => allocated'[w] = allocated[w]]_vars

\* One worker has made every call, and a peer has one call that returned
\* and a later one that failed, its counter standing at one.
C13_Witness ==
  \E w \in Workers : \E v \in Workers :
    /\ allocated[w] = MaxSlots
    /\ allocated[v] = 1 /\ err[v] = CastError /\ pc[v] = "idle"

\* The queues that the entries of a slot record refer to.
SlotQueues(slot) ==
  UNION { Range(slot.vector[j][1].send) \cup { slot.vector[j][1].recv.source } :
            j \in { i \in 1..Len(slot.vector) : slot.vector[i] # None } }

\* C14: under any interleaving of allocate calls, a slot index is created
\* once, by the first worker whose call reaches that index, inside the
\* table's critical section (at most one worker is in it), and in one step:
\* the slot appears with peers fresh empty queues and with all peers entries
\* present; entries leave the table only afterwards, one per extraction, and
\* a slot once created is never replaced or removed.
C14_AtomicCreation ==
  /\ [](\A w \in Workers :
          /\ \A v \in Workers : (pc[w] # "idle" /\ pc[v] # "idle") => w = v
          /\ pc[w] # "idle" <=> lock = w)
  /\ [][/\ Len(channels') \in { Len(channels), Len(channels) + 1 }
         /\ \A k \in Slots :
              /\ channels'[k].type = channels[k].type
              /\ \A j \in 1..peers :
                   channels'[k].vector[j] \in { channels[k].vector[j], None }
         /\ Len(channels') = Len(channels) + 1 =>
              /\ \E w \in Workers :
                   /\ lock = w /\ pc[w] = "locked" /\ pc'[w] = "grown"
                   /\ allocated[w] = Len(channels)
                   /\ \A v \in Workers : allocated[v] <= Len(channels)
                   /\ channels'[Len(channels')].type = ty[w]
              /\ Len(channels'[Len(channels')].vector) = peers
              /\ \A j \in 1..peers : channels'[Len(channels')].vector[j] # None
              /\ SlotQueues(channels'[Len(channels')])
                   = (Len(chans) + 1)..(Len(chans) + peers)
              /\ Len(chans') = Len(chans) + peers
              /\ \A c \in (Len(chans) + 1)..Len(chans') : chans'[c] = << >>
              /\ \A c \in 1..Len(chans) : chans'[c] = chans[c]
              /\ allocated' = allocated /\ held' = held]_vars

\* A slot of the largest group has just been created: its creator is in the
\* critical section and every entry of the slot is still in the table.
C14_Witness ==
  /\ peers = MaxPeers
  /\ \E w \in Workers :
       /\ pc[w] = "grown" /\ lock = w
       /\ Len(channels) = MaxSlots
       /\ allocated[w] = MaxSlots - 1
       /\ \A j \in 1..peers : channels[MaxSlots].vector[j] # None

\* C15: allocate waits for nothing but the table's lock: a call can enter
\* whenever the lock is free, whatever its peers have allocated and whatever
\* the queues hold; a call that has entered always has a step to take and
\* completes (it returns endpoints or fails fatally), and the lock is always
\* released again, so that with fair acquisition every call completes, also
\* that of a worker many allocations ahead of peers that have made none.
C15_NoWaiting ==
  /\ [](\A w \in 0..(MaxPeers - 1) :
          /\ (w \in Workers /\ pc[w] = "idle" /\ lock = -1)
               => \A t \in Types : ENABLED AllocLock(w, t)
          /\ (w \in Workers /\ pc[w] # "idle")
               => ENABLED (AllocGrow(w) \/ AllocExtract(w)))
  /\ \A w \in 0..(MaxPeers - 1) :
       (w \in Workers /\ pc[w] # "idle")
         ~> (w \in Workers /\ pc[w] = "idle"
               /\ (ret[w] # None \/ err[w] \in AllocErrors))
  /\ (lock # -1) ~> (lock = -1)

\* In the largest group one worker has completed every allocation while its
\* peers have not allocated at all.
C15_Witness ==
  /\ peers = MaxPeers
  /\ \E w \in Workers :
       /\ allocated[w] = MaxSlots /\ pc[w] = "idle" /\ ret[w] # None
       /\ \A v \in Workers \ {w} : allocated[v] = 0 /\ err[v] = NoError

\* The slots a worker's counter accounts for: those it has extracted, and the
\* one a call in progress is about to index (self.allocated, 0-based, is
\* position allocated + 1 of the table).
Reach(w) == allocated[w] + (IF pc[w] = "grown" THEN 1 ELSE 0)

MaxOf(S) == CHOOSE m \in S : \A n \in S : n <= m

\* C16: every counter is at most the table's length, the table's length is
\* the largest counter over the workers sharing it (a call past the creation
\* step counts with the slot it is about to extract), the position allocate
\* indexes is inside the table, and the table changes in length only by one
\* slot appended at position = length by a call whose counter equals the
\* length, the slots before it staying in place.
C16_CounterBound ==
  /\ [](/\ \A w \in Workers : allocated[w] <= Len(channels)
        /\ Len(channels) = MaxOf({ Reach(w) : w \in Workers })
        /\ \A w \in Workers :
             pc[w] = "grown" => (allocated[w] + 1) \in 1..Len(channels))
  /\ [][Len(channels') # Len(channels)
          => /\ Len(channels') = Len(channels) + 1
             /\ \E w \in Workers :
                  /\ pc[w] = "locked" /\ pc'[w] = "grown"
                  /\ allocated[w] = Len(channels)
             /\ \A k \in 1..Len(channels) : channels'[k] = channels[k]]_vars

\* A worker behind its peer is past the creation step of a call that created
\* nothing: the position it indexes is inside the table and not the last.
C16_Witness ==
  \E w \in Workers :
    /\ pc[w] = "grown"
    /\ allocated[w] + 1 < Len(channels)
    /\ \E v \in Workers : allocated[v] = Len(channels)

\* Entry (k, j) of the table: the j-th Option of slot k's vector (j 1-based).
Entry(k, j) == channels[k].vector[j]

\* C17: for the allocators of one new_vector call, whatever the order of
\* their allocate calls and the types they ask for, no call fails on an entry
\* already consumed; an entry that has been taken stays taken (it is never put
\* back, so it is taken at most once), and an entry is emptied only by a
\* successful allocate call of the one worker whose index is the entry's
\* position, which returns that entry's endpoints.
C17_NeverConsumed ==
  /\ [](\A w \in Workers : err[w] # ConsumedError)
  /\ [][\A k \in 1..Len(channels) : \A j \in 1..peers :
          /\ Entry(k, j) = None => Entry(k, j)' = None
          /\ (Entry(k, j) # None /\ Entry(k, j)' = None)
               => /\ procs[j - 1].index = j - 1
                  /\ \A v \in Workers \ {j - 1} : procs[v].index # j - 1
                  /\ pc[j - 1] = "grown" /\ pc'[j - 1] = "idle"
                  /\ allocated[j - 1] + 1 = k
                  /\ ret'[j - 1] = Some(Returned(Entry(k, j)[1]))
                  /\ \A i \in 1..peers : i # j => Entry(k, i)' = Entry(k, i)]_vars

\* In the largest group every entry of every slot has been taken, the slots
\* having been created with different message types.
C17_Witness ==
  /\ peers = MaxPeers
  /\ Len(channels) = MaxSlots
  /\ \A k \in Slots : \A j \in 1..peers : Entry(k, j) = None
  /\ \E k \in Slots : \E n \in Slots : channels[k].type # channels[n].type

\* The fatal failures raised inside the critical section (lines 61-69).
LockedErrors == { CastError, ConsumedError }

\* C18: a call that fails past the lock (type mismatch or consumed entry)
\* fails while it holds the table's lock: the lock is released poisoned, the
\* table and every counter are as before the call.  From then on the table
\* and the counters never change, nobody is inside allocate, and every
\* allocate call of every worker, whatever type it asks for, fails with the
\* lock error and returns nothing.
C18_Poisoning ==
  /\ [][\A w \in Workers :
          (pc[w] = "grown" /\ pc'[w] = "idle" /\ ret'[w] = None)
            => /\ lock = w /\ lock' = -1
               /\ poisoned'
               /\ err'[w] \in LockedErrors
               /\ channels' = channels
               /\ allocated' = allocated]_vars
  /\ [](poisoned =>
          /\ lock = -1
          /\ \A w \in Workers :
               /\ pc[w] = "idle"
               /\ \A t \in Types : ENABLED AllocLock(w, t))
  /\ [][poisoned =>
          /\ poisoned'
          /\ channels' = channels
          /\ allocated' = allocated
          /\ \A w \in Workers : \A t \in Types :
               AllocLock(w, t) => /\ err'[w] = MutexError
                                  /\ ret'[w] = None
                                  /\ pc'[w] = "idle"]_vars

\* One worker failed on a type mismatch, and the peer that had created the
\* slot, whose next call would have created a slot of whatever type it asked
\* for, then failed on the lock.
C18_Witness ==
  /\ poisoned
  /\ \E v \in Workers : \E w \in Workers \ {v} :
       /\ err[v] = CastError
       /\ err[w] = MutexError
       /\ allocated[v] < Len(channels)
       /\ allocated[w] = Len(channels)

\* The read end of destination d for slot k is still boxed in the table.
Unextracted(k, d) == k \in 1..Len(channels) /\ Entry(k, d + 1) # None

\* The queue behind that read end.
BoxedQueue(k, d) == Entry(k, d + 1)[1].recv.source

IsPrefix(s, t) == Len(s) <= Len(t) /\ SubSeq(t, 1, Len(s)) = s

\* C19: a worker holding the slot-k pusher for a destination d that has not
\* allocated slot k can push to it: the push raises no error and appends the
\* value to d's queue.  While d's read end is boxed in the table its queue is
\* exactly what was pushed to d, in push order.  When d allocates slot k it
\* is given the puller of that queue with the queue as it was, and what its
\* pulls return from then on is an initial part of what was pushed, in push
\* order.
C19_Retention ==
  /\ [](\A k \in Slots : \A d \in Workers :
          /\ Unextracted(k, d)
               => /\ chans[BoxedQueue(k, d)] = enq[k][d + 1]
                  /\ Len(held[d]) < k
          /\ HoldsPuller(d, k) => IsPrefix(got[d][k], enq[k][d + 1]))
  /\ [][\A k \in Slots : \A d \in Workers :
          Unextracted(k, d) =>
            /\ \A w \in Workers : \A opt \in Options :
                 (opt # None /\ Push(w, k, d, opt))
                   => /\ err'[w] = err[w]
                      /\ chans'[BoxedQueue(k, d)] =
                           Append(chans[BoxedQueue(k, d)], Msg(npush + 1, w, k, d))
            /\ ~Unextracted(k, d)'
                 => /\ held'[d][k].pull =
                         Some([source |-> BoxedQueue(k, d), current |-> None])
                    /\ got'[d][k] = << >>
                    /\ chans'[BoxedQueue(k, d)] = enq[k][d + 1]]_vars

\* Destination d is inside its allocate call for slot k, its read end still
\* in the table, while its queue holds two values pushed by another worker.
C19_Witness ==
  \E k \in Slots : \E d \in Workers :
    /\ Unextracted(k, d)
    /\ pc[d] = "grown" /\ allocated[d] + 1 = k
    /\ Len(chans[BoxedQueue(k, d)]) = 2
    /\ \A i \in 1..2 : chans[BoxedQueue(k, d)][i].src # d

\* The non-empty values d's pulls on its slot-k puller have returned so far.
ReturnedSoFar(k, d) == IF k \in 1..Len(got[d]) THEN got[d][k] ELSE << >>

NoRepeat(s) == \A i \in 1..Len(s) : \A j \in 1..Len(s) : s[i] = s[j] => i = j

\* C20: for each slot k and destination d whose read end exists (boxed in the
\* table or held by d), the values d's pulls have returned, followed by the
\* contents of d's queue, are the values enqueued to d by all sources in
\* enqueue order; in every state the returned values are an initial part of
\* the enqueued ones (none was not pushed) and none is returned twice.  A
\* pull sets the puller's held value to the head of the queue, or to empty,
\* whatever it held before, and records what it returned.
C20_Conservation ==
  /\ [](\A k \in Slots : \A d \in Workers :
          /\ DestQueue(k, d) # None
               => ReturnedSoFar(k, d) \o chans[DestQueue(k, d)[1]] = enq[k][d + 1]
          /\ IsPrefix(ReturnedSoFar(k, d), enq[k][d + 1])
          /\ NoRepeat(ReturnedSoFar(k, d))
          /\ \A i \in 1..Len(enq[k][d + 1]) :
               enq[k][d + 1][i].slot = k /\ enq[k][d + 1][i].dst = d)
  /\ [][\A d \in Workers : \A k \in 1..MaxSlots :
          (HoldsPuller(d, k) /\ Pull(d, k))
            => LET q == chans[Source(d, k)]
                   now == IF q = << >> THEN None ELSE Some(Head(q))
               IN  /\ Current(d, k)' = now
                   /\ got'[d][k] = got[d][k] \o now
                   /\ chans'[Source(d, k)] = (IF q = << >> THEN q ELSE Tail(q))]_vars

\* Destination d has been returned one value and holds it, while a value
\* from another source waits in its queue.
C20_Witness ==
  \E k \in Slots : \E d \in Workers :
    /\ HoldsPuller(d, k)
    /\ Len(got[d][k]) = 1
    /\ Current(d, k) = Some(got[d][k][1])
    /\ Len(chans[Source(d, k)]) = 1
    /\ chans[Source(d, k)][1].src # got[d][k][1].src

====
